---- MODULE Spec2Model ----
(***************************************************************************)
(* Model of src/app/page.tsx (component Home): the WebSocket connection    *)
(* effect with its reconnect timer, the response handler with the stats    *)
(* window, the compare flag and its ref, and the camera capture loop.      *)
(* Every browser task (a socket event, a timer, an animation frame, an     *)
(* image load, a user event, a React effect) is one atomic action.         *)
(***************************************************************************)
EXTENDS Integers, Sequences, FiniteSets, TLC

\* ---------------------------------------------------------------- bounds
\* sockets ever constructed (new WebSocket calls that succeed)
MaxSockets == 3
\* inbound messages delivered over all sockets
MaxMsgs == 2
\* steps of the clock
MaxTicks == 2
\* getUserMedia promises pending at once
MaxPending == 1
\* captureFrame callbacks scheduled at once
MaxLoops == 2

\* ------------------------------------------------------ program constants
\* setTimeout(connectWebSocket, 3000)
ReconnectDelay == 3000
\* if (elapsed >= 1000)
StatsInterval == 1000


VARIABLES
    now,              \* Date.now(), in ms from an origin the specification sets
    urlValid,         \* whether new WebSocket(wsUrl) accepts the derived URL
    effects,          \* instances of the connection effect: closure variables
    sockets,          \* every WebSocket constructed, in order of construction
    timers,           \* every setTimeout made by ws.onclose
    wsRef,            \* wsRef.current: index into sockets, 0 for null
    isConnected,
    isStreaming,
    isComparing,
    isComparingRef,   \* isComparingRef.current
    stats,            \* ProcessingStats; fps in tenths
    error,
    frameCountRef,    \* frameCountRef.current
    lastStatsTimeRef, \* lastStatsTimeRef.current
    decoding,         \* images whose onload has not fired yet (message numbers)
    display,          \* last thing drawn on the display canvas
    received,         \* number of messages delivered to ws.onmessage
    lastMsg,          \* the message delivered last, and what the handler did
    reports,          \* number of setStats calls made by ws.onmessage
    gumPending,       \* getUserMedia promises not yet settled
    video,            \* the video element: whether a stream is attached, whether
                      \* its tracks are live, paused, loadedmetadata still to fire
    loops,            \* captureFrame callbacks waiting for an animation frame
    tx,               \* the socket that transmitted the last frame, and the
                      \* parity of the number of frames transmitted so far
    sendThrew         \* WebSocket.send has thrown inside captureFrame

connVars == <<urlValid, effects, sockets, timers, wsRef, isConnected>>
msgVars == <<stats, frameCountRef, lastStatsTimeRef, decoding, received, lastMsg,
             reports>>
camVars == <<gumPending, video, loops, tx, sendThrew>>
vars == <<now, connVars, msgVars, camVars, isStreaming, isComparing, isComparingRef,
          error, display>>

\* ------------------------------------------------------------- data
NoStats == [fps |-> 0, processingTime |-> 0, frameCount |-> 0]
NoMsg == [type |-> "none"]
NoVideo == [attached |-> FALSE, live |-> FALSE, paused |-> TRUE, metaPending |-> FALSE]
Blank == [src |-> "blank", img |-> 0]

ErrConnection == "Connection error - is the backend running on port 8000?"
ErrConstructor == "SyntaxError: the URL is invalid"
ErrCamera == "Failed to access camera"

\* the component is mounted: its last effect instance has not been cleaned up
Mounted == Len(effects) > 0 /\ ~effects[Len(effects)].cleaned

\* displayCanvasRef.current, videoRef.current are set exactly while mounted
CanvasPresent == Mounted

\* ------------------------------------------------ the connection effect
ReadyStates == {"CONNECTING", "OPEN", "CLOSING", "CLOSED"}

\* new WebSocket(wsUrl), with the four handlers attached (lines 50-116)
NewSocket(e, c) ==
    [readyState |-> "CONNECTING", effect |-> e, cause |-> c, closeCalls |-> 0]

\* connectWebSocket of effect instance e, called at mount (c = 0) or by timer c:
\* the constructor either throws (caught: setError(String(e))) or yields a
\* socket that is stored in the closure's ws and in wsRef.current
connectWebSocket(e, c, effs, socks, ref, err) ==
    IF urlValid
    THEN [effects |-> [effs EXCEPT ![e].ws = Len(socks) + 1],
          sockets |-> Append(socks, NewSocket(e, c)),
          wsRef   |-> Len(socks) + 1,
          error   |-> err]
    ELSE [effects |-> effs, sockets |-> socks, wsRef |-> ref,
          error |-> ErrConstructor]

\* clearTimeout(h): cancels a pending timer, and is a no-op on any other handle
ClearTimeout(tms, h) ==
    IF h # 0 /\ tms[h].status = "pending"
    THEN [tms EXCEPT ![h].status = "cleared"]
    ELSE tms

\* line 128 without its test of readyState
ShouldCloseAny(socks, ref) == ref # 0

\* the condition under which the cleanup calls wsRef.current.close() (line 128)
ShouldClose(socks, ref) == ref # 0 /\ socks[ref].readyState = "OPEN"

\* WebSocket.close(): starts the closing handshake unless already closing/closed
CloseCall(sock) ==
    [sock EXCEPT !.closeCalls = @ + 1,
                 !.readyState = IF @ \in {"CONNECTING", "OPEN"} THEN "CLOSING" ELSE @]

\* the effect's cleanup function (lines 126-131), as a function of what it reads
Cleanup(e, effs, tms, socks, ref) ==
    [timers  |-> IF effs[e].reconnectTimeout # 0
                 THEN ClearTimeout(tms, effs[e].reconnectTimeout)
                 ELSE tms,
     sockets |-> IF ShouldClose(socks, ref)
                 THEN [socks EXCEPT ![ref] = CloseCall(socks[ref])]
                 ELSE socks]

NewEffect == [reconnectTimeout |-> 0, ws |-> 0, cleaned |-> FALSE]

\* The effect runs after the first render. Under React's StrictMode (a
\* development build) it runs, is cleaned up and runs again in the same task.
Mount(strict) ==
    /\ Len(effects) = 0
    /\ Len(sockets) + (IF strict THEN 2 ELSE 1) <= MaxSockets
    /\ LET c1 == connectWebSocket(1, 0, <<NewEffect>>, sockets, wsRef, error)
           cl == Cleanup(1, c1.effects, timers, c1.sockets, c1.wsRef)
           e2 == Append([c1.effects EXCEPT ![1].cleaned = TRUE], NewEffect)
           c2 == connectWebSocket(2, 0, e2, cl.sockets, c1.wsRef, c1.error)
           r  == IF strict THEN c2 ELSE c1
       IN /\ effects' = r.effects
          /\ sockets' = r.sockets
          /\ wsRef' = r.wsRef
          /\ error' = r.error
          /\ timers' = IF strict THEN cl.timers ELSE timers
    /\ UNCHANGED <<now, urlValid, isConnected, msgVars, camVars, isStreaming,
                   isComparing, isComparingRef, display>>

\* The component unmounts: React runs the cleanup of the live effect instance.
Unmount ==
    /\ Mounted
    /\ LET e == Len(effects)
           r == Cleanup(e, effects, timers, sockets, wsRef)
       IN /\ timers' = r.timers
          /\ sockets' = r.sockets
          /\ effects' = [effects EXCEPT ![e].cleaned = TRUE]
    /\ UNCHANGED <<now, urlValid, wsRef, isConnected, msgVars, camVars, isStreaming,
                   isComparing, isComparingRef, error, display>>

\* ws.onopen (lines 52-56), run when the handshake completes
SocketOpen(s) ==
    /\ sockets[s].readyState = "CONNECTING"
    /\ sockets' = [sockets EXCEPT ![s].readyState = "OPEN"]
    /\ isConnected' = TRUE
    /\ error' = "null"
    /\ UNCHANGED <<now, urlValid, effects, timers, wsRef, msgVars, camVars,
                   isStreaming, isComparing, isComparingRef, display>>

\* lines 113-114, with the delay left out
ScheduleReconnectNoDelay(e, s) ==
    [timers  |-> Append(ClearTimeout(timers, effects[e].reconnectTimeout),
                        [effect |-> e, by |-> s, at |-> now,
                         due |-> now, status |-> "pending"]),
     effects |-> [effects EXCEPT ![e].reconnectTimeout = Len(timers) + 1]]

\* lines 113-114: if (reconnectTimeout) clearTimeout(reconnectTimeout);
\*                reconnectTimeout = setTimeout(connectWebSocket, 3000)
ScheduleReconnect(e, s) ==
    [timers  |-> Append(ClearTimeout(timers, effects[e].reconnectTimeout),
                        [effect |-> e, by |-> s, at |-> now,
                         due |-> now + ReconnectDelay, status |-> "pending"]),
     effects |-> [effects EXCEPT ![e].reconnectTimeout = Len(timers) + 1]]

\* ws.onclose (lines 108-115) of socket s
OnClose(s) ==
    LET r == ScheduleReconnect(sockets[s].effect, s)
    IN /\ isConnected' = FALSE
       /\ isStreaming' = FALSE
       /\ timers' = r.timers
       /\ effects' = r.effects

\* The connection ends without an error: the server closes it, or the closing
\* handshake started by close() completes. Only the close event is fired.
SocketClose(s) ==
    /\ sockets[s].readyState \in {"OPEN", "CLOSING"}
    /\ sockets' = [sockets EXCEPT ![s].readyState = "CLOSED"]
    /\ OnClose(s)
    /\ UNCHANGED <<now, urlValid, wsRef, msgVars, camVars, isComparing,
                   isComparingRef, error, display>>

\* The connection fails (refused, or lost): the browser fires error and then
\* close in one task, so ws.onerror (lines 102-106) runs and then ws.onclose.
SocketFail(s) ==
    /\ sockets[s].readyState \in {"CONNECTING", "OPEN"}
    /\ sockets' = [sockets EXCEPT ![s].readyState = "CLOSED"]
    /\ error' = ErrConnection
    /\ OnClose(s)
    /\ UNCHANGED <<now, urlValid, wsRef, msgVars, camVars, isComparing,
                   isComparingRef, display>>

\* The reconnect timer fires: connectWebSocket runs in the closure that made it.
TimerFire(t) ==
    /\ timers[t].status = "pending"
    /\ now >= timers[t].due
    /\ Len(sockets) < MaxSockets
    /\ LET r == connectWebSocket(timers[t].effect, t, effects, sockets, wsRef, error)
       IN /\ effects' = r.effects
          /\ sockets' = r.sockets
          /\ wsRef' = r.wsRef
          /\ error' = r.error
    /\ timers' = [timers EXCEPT ![t].status = "fired"]
    /\ UNCHANGED <<now, urlValid, isConnected, msgVars, camVars, isStreaming,
                   isComparing, isComparingRef, display>>

\* Time passes.
Tick(d) ==
    /\ now' = now + d
    /\ UNCHANGED <<connVars, msgVars, camVars, isStreaming, isComparing,
                   isComparingRef, error, display>>

\* ------------------------------------------------- the response handler
\* processing_time_ms values the service reports
PTimes == {50}

\* What the service can send: an enhanced frame, an error, a well-formed
\* message of another type, text that JSON.parse rejects ("malformed"), and
\* the JSON text null, which parses to a value whose type cannot be read.
\* frame_count is the service's cumulative count, here ten per message.
Messages(seq) ==
    {[type |-> "enhanced", text |-> "", ptime |-> p, fcount |-> 10 * seq] : p \in PTimes}
    \cup {[type |-> "error", text |-> "OOM", ptime |-> 0, fcount |-> 0],
          [type |-> "other", text |-> "", ptime |-> 0, fcount |-> 0],
          [type |-> "malformed", text |-> "", ptime |-> 0, fcount |-> 0],
          [type |-> "null", text |-> "", ptime |-> 0, fcount |-> 0]}

\* JSON.parse(event.data) throws, or reading response.type throws (line 60, 62)
Throws(m) == m.type \in {"malformed", "null"}

\* Math.round(((count / elapsed) * 1000) * 10), the fps in tenths (lines 84-86);
\* Math.round rounds a half up
Fps10(count, elapsed) == (20000 * count + elapsed) \div (2 * elapsed)

\* the test that opens a new stats window (line 83)
WindowFull(elapsed) == elapsed >= StatsInterval

\* lines 64-67: in compare mode the frame is counted and the handler returns
SkipRender == isComparingRef

\* lines 78-92: count the frame, and report when the window is full
UpdateStats(m) ==
    LET count == frameCountRef + 1
        elapsed == now - lastStatsTimeRef
    IN IF WindowFull(elapsed)
       THEN /\ stats' = [fps |-> Fps10(count, elapsed),
                         processingTime |-> m.ptime,
                         frameCount |-> m.fcount]
            /\ frameCountRef' = 0
            /\ lastStatsTimeRef' = now
            /\ reports' = reports + 1
       ELSE /\ frameCountRef' = count
            /\ UNCHANGED <<stats, lastStatsTimeRef, reports>>

\* lines 93-96, treating a reported error as a lost connection
OnErrorMessageDisconnects(m) == error' = m.text /\ isConnected' = FALSE
\* lines 93-96: the handler's branch for a message of type error
OnErrorMessage(m) == error' = m.text /\ UNCHANGED isConnected

\* lines 97-99, showing the exception to the user
OnThrowShown == error' = "SyntaxError" /\ UNCHANGED isConnected
\* lines 97-99: the catch of the handler's try block only logs
OnThrow == UNCHANGED <<error, isConnected>>

\* how the handler of lines 58-100 leaves: which branch it took, "caught" when
\* the try block threw into its catch; the try block spans the whole body, so
\* no exception leaves the handler
Outcome(m) ==
    IF Throws(m) THEN "caught"
    ELSE IF m.type = "enhanced" /\ CanvasPresent
    THEN (IF SkipRender THEN "counted" ELSE "decode")
    ELSE IF m.type = "error" THEN "error"
    ELSE "ignored"

\* ws.onmessage (lines 58-100) of socket s, for message m
OnMessage(s, m) ==
    /\ sockets[s].readyState \in {"OPEN", "CLOSING"}
    /\ received' = received + 1
    /\ lastMsg' = [type |-> m.type, text |-> m.text, ptime |-> m.ptime,
                   fcount |-> m.fcount, seq |-> received + 1,
                   outcome |-> Outcome(m)]
    /\ IF Throws(m)
       THEN /\ OnThrow
            /\ UNCHANGED <<stats, frameCountRef, lastStatsTimeRef, reports,
                           decoding>>
       ELSE IF m.type = "enhanced" /\ CanvasPresent
       THEN IF SkipRender
            THEN /\ frameCountRef' = frameCountRef + 1
                 /\ UNCHANGED <<stats, lastStatsTimeRef, reports, decoding,
                                error, isConnected>>
            ELSE /\ decoding' = decoding \cup {received + 1}
                 /\ UpdateStats(m)
                 /\ UNCHANGED <<error, isConnected>>
       ELSE IF m.type = "error"
            THEN /\ OnErrorMessage(m)
                 /\ UNCHANGED <<stats, frameCountRef, lastStatsTimeRef, reports,
                                decoding>>
            ELSE UNCHANGED <<stats, frameCountRef, lastStatsTimeRef, reports,
                             decoding, error, isConnected>>
    /\ UNCHANGED <<now, urlValid, effects, sockets, timers, wsRef, camVars,
                   isStreaming, isComparing, isComparingRef, display>>

\* the guard of the draw in img.onload (line 72)
DrawAllowed == CanvasPresent

\* lines 70-75, discarding the image of a message older than the one shown
ImgOnloadNewest(k) ==
    /\ k \in decoding
    /\ decoding' = decoding \ {k}
    /\ display' = IF DrawAllowed /\ k > display.img
                  THEN [src |-> "enhanced", img |-> k] ELSE display
    /\ UNCHANGED <<now, connVars, stats, frameCountRef, lastStatsTimeRef, received,
                   lastMsg, reports, camVars, isStreaming, isComparing,
                   isComparingRef, error>>

\* img.onload (lines 70-75) of the image made for message k
ImgOnload(k) ==
    /\ k \in decoding
    /\ decoding' = decoding \ {k}
    /\ display' = IF DrawAllowed THEN [src |-> "enhanced", img |-> k] ELSE display
    /\ UNCHANGED <<now, connVars, stats, frameCountRef, lastStatsTimeRef, received,
                   lastMsg, reports, camVars, isStreaming, isComparing,
                   isComparingRef, error>>

\* --------------------------------------------------------- compare mode
\* The COMPARE button (lines 338-342); a disabled button receives no mouse
\* events. mousedown and mouseup are discrete events: React renders and runs
\* the effect of lines 32-34 before the event's task ends.
CompareDown ==
    /\ Mounted /\ isStreaming
    /\ isComparing' = TRUE
    /\ isComparingRef' = TRUE
    /\ UNCHANGED <<now, connVars, msgVars, camVars, isStreaming, error, display>>

CompareUp ==
    /\ Mounted /\ isStreaming
    /\ isComparing' = FALSE
    /\ isComparingRef' = FALSE
    /\ UNCHANGED <<now, connVars, msgVars, camVars, isStreaming, error, display>>

\* onMouseLeave (line 341) is a continuous event: React renders, and runs the
\* effect of lines 32-34 in a later task
CompareLeave ==
    /\ Mounted /\ isStreaming
    /\ isComparing' = FALSE
    /\ UNCHANGED <<now, connVars, msgVars, camVars, isStreaming, isComparingRef,
                   error, display>>

\* the effect of lines 32-34, when React runs it in a task of its own
SyncCompareRef ==
    /\ Mounted
    /\ isComparingRef # isComparing
    /\ isComparingRef' = isComparing
    /\ UNCHANGED <<now, connVars, msgVars, camVars, isStreaming, isComparing,
                   error, display>>

\* --------------------------------------------------- camera and capture
\* video.ended: the attached MediaStream has become inactive
Ended == video.attached /\ ~video.live

\* the negation of the exit test of captureFrame (line 199)
VideoActive == Mounted /\ ~video.paused /\ ~Ended

\* readyState of wsRef.current, "null" when there is none
RefReady == IF wsRef = 0 THEN "null" ELSE sockets[wsRef].readyState

\* line 234 without its test of readyState
CanSendAny == wsRef # 0

\* the test before wsRef.current.send (line 234)
CanSend == wsRef # 0 /\ sockets[wsRef].readyState = "OPEN"

\* wsRef.current.send(...) behind its test (lines 234-239). WebSocket.send
\* throws on a CONNECTING socket, transmits on an OPEN one, and discards the
\* data on a closing or closed one.
SendFrame ==
    IF ~CanSend THEN "skipped"
    ELSE IF RefReady = "CONNECTING" THEN "threw"
    ELSE IF RefReady = "OPEN" THEN "sent"
    ELSE "discarded"

\* the frame goes out on wsRef.current
Transmit == [socket |-> wsRef, parity |-> ~tx.parity]

Faults == {"none", "noctx", "throw"}

\* lines 197-245, with the send left out of a step that draws the raw frame
captureFrameCompareOnly(fault, active) ==
    IF ~active \/ fault = "noctx"
    THEN [resched |-> FALSE, display |-> display, tx |-> tx, sendThrew |-> sendThrew]
    ELSE IF fault = "throw"
    THEN [resched |-> TRUE, display |-> display, tx |-> tx, sendThrew |-> sendThrew]
    ELSE IF isComparingRef
    THEN [resched |-> TRUE, display |-> [src |-> "original", img |-> 0],
          tx |-> tx, sendThrew |-> sendThrew]
    ELSE [resched |-> TRUE, display |-> display,
          tx |-> IF SendFrame = "sent" THEN Transmit ELSE tx,
          sendThrew |-> sendThrew \/ SendFrame = "threw"]

\* The body of captureFrame (lines 197-245). fault is what the browser does in
\* this step: "none", "noctx" (getContext returns null) or "throw" (drawImage
\* or toDataURL throws). active is the negation of the exit test of line 199.
\* resched tells whether requestAnimationFrame was called.
captureFrame(fault, active) ==
    IF ~active \/ fault = "noctx"
    THEN [resched |-> FALSE, display |-> display, tx |-> tx, sendThrew |-> sendThrew]
    ELSE IF fault = "throw"
    THEN [resched |-> TRUE, display |-> display, tx |-> tx, sendThrew |-> sendThrew]
    ELSE [resched |-> TRUE,
          display |-> IF isComparingRef THEN [src |-> "original", img |-> 0]
                      ELSE display,
          tx |-> IF SendFrame = "sent" THEN Transmit ELSE tx,
          sendThrew |-> sendThrew \/ SendFrame = "threw"]

\* An animation frame runs one scheduled captureFrame.
CaptureStep(fault) ==
    /\ loops > 0
    /\ LET r == captureFrame(fault, VideoActive)
       IN /\ tx' = r.tx
          /\ display' = r.display
          /\ sendThrew' = r.sendThrew
          /\ loops' = IF r.resched THEN loops ELSE loops - 1
    /\ UNCHANGED <<now, connVars, msgVars, gumPending, video, isStreaming,
                   isComparing, isComparingRef, error>>

\* START STREAM (lines 318-320, 139-148): startCamera runs up to its await
StartCamera ==
    /\ Mounted /\ ~isStreaming /\ isConnected
    /\ gumPending < MaxPending
    /\ gumPending' = gumPending + 1
    /\ UNCHANGED <<now, connVars, msgVars, video, loops, tx, sendThrew,
                   isStreaming, isComparing, isComparingRef, error, display>>

\* getUserMedia resolves (lines 150-158): the stream is attached to the video
\* element, which loads it (a load pauses the element), and the error is cleared
GumResolve ==
    /\ gumPending > 0
    /\ gumPending' = gumPending - 1
    /\ video' = IF Mounted
                THEN [attached |-> TRUE, live |-> TRUE, paused |-> TRUE,
                      metaPending |-> TRUE]
                ELSE video
    /\ error' = "null"
    /\ UNCHANGED <<now, connVars, msgVars, loops, tx, sendThrew, isStreaming,
                   isComparing, isComparingRef, display>>

\* getUserMedia rejects (lines 159-162)
GumReject ==
    /\ gumPending > 0
    /\ gumPending' = gumPending - 1
    /\ error' = ErrCamera
    /\ isStreaming' = FALSE
    /\ UNCHANGED <<now, connVars, msgVars, video, loops, tx, sendThrew,
                   isComparing, isComparingRef, display>>

\* video.onloadedmetadata (lines 152-156): play, setIsStreaming(true), and
\* startFrameCapture (lines 172-248), which runs the first captureFrame itself;
\* play() has cleared video.paused by then
LoadedMetadata(fault) ==
    /\ video.metaPending
    /\ Mounted
    /\ loops < MaxLoops
    /\ video' = [video EXCEPT !.metaPending = FALSE, !.paused = FALSE]
    /\ isStreaming' = TRUE
    /\ LET r == captureFrame(fault, ~Ended)
       IN /\ tx' = r.tx
          /\ display' = r.display
          /\ sendThrew' = r.sendThrew
          /\ loops' = IF r.resched THEN loops + 1 ELSE loops
    /\ UNCHANGED <<now, connVars, msgVars, gumPending, isComparing,
                   isComparingRef, error>>

\* stopCamera (lines 165-170), as a function of what it reads: every track of
\* the attached stream is stopped, and setIsStreaming(false)
stopCamera(vid, streaming) ==
    [video |-> IF vid.attached THEN [vid EXCEPT !.live = FALSE] ELSE vid,
     isStreaming |-> FALSE]

\* STOP STREAM (lines 328-330)
StopCamera ==
    /\ Mounted /\ isStreaming
    /\ LET r == stopCamera(video, isStreaming)
       IN /\ video' = r.video
          /\ isStreaming' = r.isStreaming
    /\ UNCHANGED <<now, connVars, msgVars, gumPending, loops, tx, sendThrew,
                   isComparing, isComparingRef, error, display>>

\* ------------------------------------------------------- specification
Init ==
    /\ now = 0
    /\ urlValid \in BOOLEAN
    /\ effects = <<>>
    /\ sockets = <<>>
    /\ timers = <<>>
    /\ wsRef = 0
    /\ isConnected = FALSE
    /\ isStreaming = FALSE
    /\ isComparing = FALSE
    /\ isComparingRef = FALSE
    /\ stats = NoStats
    /\ error = "null"
    /\ frameCountRef = 0
    /\ lastStatsTimeRef = 0
    /\ decoding = {}
    /\ display = Blank
    /\ received = 0
    /\ lastMsg = NoMsg
    /\ reports = 0
    /\ gumPending = 0
    /\ video = NoVideo
    /\ loops = 0
    /\ tx = [socket |-> 0, parity |-> FALSE]
    /\ sendThrew = FALSE

\* a reconnect timer is pending and not yet due
TimerWaiting ==
    \E t \in DOMAIN timers : timers[t].status = "pending" /\ timers[t].due > now

\* The connection manager. Its actions read the clock only to set and to test
\* timers, so the clock advances only while a timer is waiting.
NextConn ==
    \/ \E strict \in BOOLEAN : Mount(strict)
    \/ Unmount
    \/ \E s \in DOMAIN sockets : SocketOpen(s)
    \/ \E s \in DOMAIN sockets : SocketClose(s)
    \/ \E s \in DOMAIN sockets : SocketFail(s)
    \/ \E t \in DOMAIN timers : TimerFire(t)
    \/ /\ TimerWaiting
       /\ now + ReconnectDelay <= MaxTicks * ReconnectDelay
       /\ Tick(ReconnectDelay)

\* the camera and the capture loop
NextCam ==
    \/ StartCamera
    \/ GumResolve
    \/ GumReject
    \/ \E f \in Faults : LoadedMetadata(f)
    \/ \E f \in Faults : CaptureStep(f)
    \/ StopCamera

\* the compare button
NextCompare ==
    \/ CompareDown
    \/ CompareUp
    \/ CompareLeave
    \/ SyncCompareRef

\* the response handler
NextMsg ==
    \/ \E s \in DOMAIN sockets : \E m \in Messages(received + 1) :
          received < MaxMsgs /\ OnMessage(s, m)
    \/ \E k \in decoding : ImgOnload(k)

\* The whole component. The specifications below are its parts: each leaves
\* out actions that write no variable its own actions read.
Next == NextConn \/ NextCam \/ NextCompare \/ NextMsg

Spec == Init /\ [][Next]_vars

\* The connection manager alone: no other action writes connVars or now.
SpecConn == Init /\ [][NextConn]_vars

\* The connection manager with the camera and the capture loop. Left out are
\* the response handler, which writes only msgVars, error and display, and the
\* compare button, which writes only the compare flag and, through the capture
\* step, display: no action of this specification reads any of them.
NextTransport == NextConn \/ NextCam

SpecTransport == Init /\ [][NextTransport]_vars

\* The state reached by mounting, the socket opening, START STREAM, the camera
\* being granted and loadedmetadata: one open socket, one capture loop, the
\* first frame sent.
Streaming ==
    /\ urlValid = TRUE
    /\ effects = <<[reconnectTimeout |-> 0, ws |-> 1, cleaned |-> FALSE]>>
    /\ sockets = <<[readyState |-> "OPEN", effect |-> 1, cause |-> 0,
                    closeCalls |-> 0]>>
    /\ timers = <<>>
    /\ wsRef = 1
    /\ isConnected = TRUE
    /\ isStreaming = TRUE
    /\ error = "null"
    /\ gumPending = 0
    /\ video = [attached |-> TRUE, live |-> TRUE, paused |-> FALSE,
                metaPending |-> FALSE]
    /\ loops = 1
    /\ tx = [socket |-> 1, parity |-> TRUE]
    /\ sendThrew = FALSE

InitStreaming ==
    /\ Streaming
    /\ now = 0
    /\ isComparing = FALSE
    /\ isComparingRef = FALSE
    /\ stats = NoStats
    /\ frameCountRef = 0
    /\ lastStatsTimeRef = 0
    /\ decoding = {}
    /\ display = Blank
    /\ received = 0
    /\ lastMsg = NoMsg
    /\ reports = 0

\* The response handler, the compare button and the capture step, from the
\* streaming state, with the user's actions that end the stream.
NextRender ==
    \/ NextMsg
    \/ NextCompare
    \/ \E f \in Faults : CaptureStep(f)
    \/ StopCamera
    \/ Unmount
    \/ now + StatsInterval <= MaxTicks * StatsInterval /\ Tick(StatsInterval)

SpecRender == InitStreaming /\ [][NextRender]_vars

\* one scheduled captureFrame runs, whatever the browser does in it
CaptureAny == \E f \in Faults : CaptureStep(f)

\* The camera and the capture loop from the streaming state, the connection
\* staying open. A callback passed to requestAnimationFrame is run at the next
\* frame, so a scheduled capture step is not postponed for ever.
SpecLoop == InitStreaming /\ [][NextCam]_vars /\ WF_vars(CaptureAny)

\* ------------------------------------------------ the stats scenario
\* messages of the stream, and the time from its first to its last message
StreamLen == 10
StreamSpan == 1200

\* how long before the stream's first message the component was constructed
MountDelays == {0, 250, 500, 1000, 2000, 5000, 10000}

\* the stream's k-th message arrives here: the messages are evenly spread
ArrivalTime(k) == ((k - 1) * StreamSpan) \div (StreamLen - 1)

\* The streaming state at the arrival of the stream's first message:
\* lastStatsTimeRef still holds the time of construction (line 29).
InitStats ==
    /\ Streaming
    /\ now = 0
    /\ lastStatsTimeRef \in {0 - d : d \in MountDelays}
    /\ isComparing = FALSE
    /\ isComparingRef = FALSE
    /\ stats = NoStats
    /\ frameCountRef = 0
    /\ decoding = {}
    /\ display = Blank
    /\ received = 0
    /\ lastMsg = NoMsg
    /\ reports = 0

\* the stream's next message is delivered at its arrival time
Deliver ==
    /\ received < StreamLen
    /\ now = ArrivalTime(received + 1)
    /\ \E m \in Messages(received + 1) : m.type = "enhanced" /\ OnMessage(1, m)

\* the clock advances to the arrival of the next message
Await ==
    /\ received < StreamLen
    /\ now < ArrivalTime(received + 1)
    /\ Tick(ArrivalTime(received + 1) - now)

NextStats ==
    \/ Deliver
    \/ Await

SpecStats == InitStats /\ [][NextStats]_vars

\* ================================================================ claims

\* the reconnect timers that are pending
Pending == {t \in DOMAIN timers : timers[t].status = "pending"}

\* the sockets a timer's connectWebSocket call constructed
MadeBy(t) == {s \in DOMAIN sockets : sockets[s].cause = t}

\* the timers a socket's close event scheduled
ScheduledBy(s) == {t \in DOMAIN timers : timers[t].by = s}

\* C1 (as amended): every close event schedules exactly one reconnect timer,
\* due 3000 ms after the close; the timer calls connectWebSocket exactly once
\* when it fires, not before it is due, and never if it is cancelled, which only
\* the cleanup of its effect does.
C1_EachLossOneTimer ==
    /\ \A s \in DOMAIN sockets :
          Cardinality(ScheduledBy(s)) =
              (IF sockets[s].readyState = "CLOSED" THEN 1 ELSE 0)
    /\ \A t \in DOMAIN timers :
          /\ timers[t].due = timers[t].at + 3000
          /\ Cardinality(MadeBy(t)) = (IF timers[t].status = "fired" THEN 1 ELSE 0)
          /\ timers[t].status = "cleared" => effects[timers[t].effect].cleaned

C1_FiresWhenDue ==
    /\ \A t \in DOMAIN timers :
          timers[t].status = "pending" /\ timers'[t].status = "fired"
              => now >= timers[t].due
    /\ \A t \in DOMAIN timers' \ DOMAIN timers : timers'[t].at = now

C1_ReconnectOncePerLoss == [](C1_EachLossOneTimer) /\ [][C1_FiresWhenDue]_vars

\* C1 witness: one loss whose timer fired and made a socket, and a later loss
\* whose timer the cleanup cancelled.
C1_Witness ==
    \E t, u \in DOMAIN timers :
        /\ timers[t].status = "fired" /\ MadeBy(t) # {}
        /\ timers[u].status = "cleared"

\* C1 (as stated): every loss is followed by exactly one connectWebSocket call,
\* never zero; so no timer scheduled by a loss is ever cancelled.
C1_Original == \A t \in DOMAIN timers : timers[t].status \in {"pending", "fired"}

\* C2 (as stated): in every reachable state at most one reconnect timer is pending.
C2_Original == Cardinality(Pending) <= 1

\* C3 (as stated): once the cleanup of an effect instance has run, no reconnect
\* timer of that instance is pending.
C3_Original == \A t \in Pending : ~effects[timers[t].effect].cleaned

\* C4: a capture step that finds no open socket transmits nothing and does not
\* throw, and nothing is buffered for later: a frame is transmitted only by a
\* capture step that found wsRef.current open, on that socket, never by a
\* socket event such as the open of the next connection.
C4_SendOnlyWhenOpen ==
    tx' # tx =>
        /\ wsRef # 0
        /\ sockets[wsRef].readyState = "OPEN"
        /\ tx'.socket = wsRef
        /\ UNCHANGED <<sockets, wsRef>>

C4_DropWhileDisconnected == [](~sendThrew) /\ [][C4_SendOnlyWhenOpen]_vars

\* C4 witness: a frame went out on an earlier socket, the connection was lost
\* and the new socket is still connecting while the capture loop keeps running.
C4_Witness ==
    /\ tx.socket # 0 /\ tx.socket # wsRef
    /\ RefReady = "CONNECTING"
    /\ loops > 0 /\ VideoActive

\* an image of an enhanced message is drawn in this step
EnhancedDrawn == display' # display /\ display'.src = "enhanced"

\* an enhanced message is handled in this step, by the mounted component
EnhancedReceived ==
    /\ received' = received + 1
    /\ lastMsg'.type = "enhanced"
    /\ Mounted

\* C5 (as stated): while the compare flag is true no enhanced image is drawn.
\* Stated for the states in which isComparingRef already agrees with the flag.
C5_Original == [][EnhancedDrawn => ~(isComparing /\ isComparingRef)]_vars

\* C6 (as stated): the response callback acts on the latest value of the
\* compare flag: an enhanced message starts a decode exactly if the flag is false.
C6_Original ==
    [][EnhancedReceived => ((received + 1 \in decoding') <=> ~isComparing)]_vars

\* the report of lines 84-91 is made in this step, from the message received
Reported ==
    /\ stats' = [fps |-> Fps10(frameCountRef + 1, now - lastStatsTimeRef),
                 processingTime |-> lastMsg'.ptime,
                 frameCount |-> lastMsg'.fcount]
    /\ frameCountRef' = 0
    /\ lastStatsTimeRef' = now

\* C7 (as stated): every enhanced message, in compare mode or not, is counted,
\* and makes the report if 1000 ms or more have passed since the last one.
C7_Original ==
    [][EnhancedReceived =>
          IF now - lastStatsTimeRef >= 1000
          THEN Reported
          ELSE frameCountRef' = frameCountRef + 1 /\ UNCHANGED stats]_vars

\* C8 (as stated): after the ten messages, spread over 1200 ms, the stats have
\* been reported once, with fps about 8.3 and processingTime 50, however long
\* before the stream the component was constructed.
C8_Original ==
    (received = StreamLen /\ now = StreamSpan) =>
        /\ reports = 1
        /\ stats.fps \in 82..84
        /\ stats.processingTime = 50

\* C9: a message of type error sets error to the message's text and changes
\* nothing else of the component's state.
C9_ErrorStep ==
    (received' = received + 1 /\ lastMsg'.type = "error") =>
        /\ error' = lastMsg'.text
        /\ UNCHANGED <<connVars, stats, frameCountRef, lastStatsTimeRef, reports,
                       decoding, camVars, isStreaming, isComparing,
                       isComparingRef, display, now>>

C9_ErrorMessageFrame == [][C9_ErrorStep]_vars

\* C9 witness: the error arrived on a connected, streaming component that had
\* reported stats.
C9_Witness ==
    /\ lastMsg.type = "error" /\ error = "OOM"
    /\ isConnected /\ isStreaming /\ reports > 0 /\ stats # NoStats

\* C10: running the cleanup of an effect instance, or stopCamera, a second time
\* changes nothing that the first run left, and close() is never called twice
\* on one socket.
C10_Idempotent ==
    /\ \A e \in DOMAIN effects :
          LET r1 == Cleanup(e, effects, timers, sockets, wsRef)
              r2 == Cleanup(e, effects, r1.timers, r1.sockets, wsRef)
          IN r2 = r1
    /\ LET s1 == stopCamera(video, isStreaming)
           s2 == stopCamera(s1.video, s1.isStreaming)
       IN s2 = s1
    /\ \A s \in DOMAIN sockets : sockets[s].closeCalls <= 1

\* C10 witness: the cleanup has closed the open socket and cancelled a timer,
\* and stopCamera has stopped the camera.
C10_Witness ==
    /\ \E e \in DOMAIN effects : effects[e].cleaned
    /\ \E s \in DOMAIN sockets : sockets[s].closeCalls = 1
    /\ \E t \in DOMAIN timers : timers[t].status = "cleared"
    /\ video.attached /\ ~video.live

\* C11 (as stated): while the camera source is active the capture loop never
\* stops: no step taken while it is active leaves fewer loops scheduled.
C11_Original == [][(loops > 0 /\ VideoActive) => loops' >= loops]_vars

\* C12 (as stated): at most one capture loop is scheduled at any time.
C12_Original == loops <= 1

\* C13 (as stated): once STOP STREAM has made the camera source inactive, the
\* capture loop that was scheduled comes to an end.
C13_Original == (Ended /\ loops > 0) ~> (loops = 0)

\* C14: a message that fails to parse changes nothing: the exception is caught
\* inside the handler, and the error shown, the connection state, the stats,
\* the window count, the pending decodes and the display canvas stay as they are.
C14_DropStep ==
    (received' = received + 1 /\ lastMsg'.type \in {"malformed", "null"}) =>
        /\ lastMsg'.outcome = "caught"
        /\ UNCHANGED <<connVars, stats, frameCountRef, lastStatsTimeRef, reports,
                       decoding, camVars, isStreaming, isComparing,
                       isComparingRef, error, display, now>>

C14_UnparseableDropped == [][C14_DropStep]_vars

\* C14 witness: the unparseable message arrived while an error reported by the
\* service was shown, and the error is still shown.
C14_Witness ==
    /\ received = 2 /\ lastMsg.type \in {"malformed", "null"}
    /\ error = "OOM" /\ isConnected /\ Mounted

\* the sockets that are connecting or connected
Live == {s \in DOMAIN sockets : sockets[s].readyState \in {"CONNECTING", "OPEN"}}

\* C15 (as stated): at most one socket is connecting or connected.
C15_Original == Cardinality(Live) <= 1

\* C16 (as stated): no disconnected state is terminal: while the component is
\* mounted and no socket is connecting or connected, a reconnect is scheduled.
C16_Original == (Mounted /\ Live = {}) => Pending # {}

\* C17: compare mode changes what a capture step draws, not what it sends: a
\* step that sends a frame while compare mode is on has drawn the raw frame on
\* the display canvas, and a step that draws the raw frame hands the frame to
\* send as a step without compare mode does, transmitting it if wsRef.current
\* is open.
C17_CompareStep ==
    /\ (tx' # tx /\ isComparing) => display' = [src |-> "original", img |-> 0]
    /\ (display' # display /\ display'.src = "original") =>
          /\ isComparingRef
          /\ tx' = IF CanSend THEN Transmit ELSE tx

C17_CompareDrawsAndSends == [][C17_CompareStep]_vars

\* C17 witness: a capture step in compare mode has drawn the raw frame and
\* sent the frame, and compare mode is still on.
C17_Witness ==
    /\ display.src = "original" /\ tx.parity = FALSE
    /\ isComparing /\ isComparingRef /\ loops > 0 /\ VideoActive

\* C18: a decode that completes draws its image whatever the display canvas
\* shows, so the canvas shows the image whose decode completed last, not the
\* image received last.
C18_DecodeStep ==
    \A k \in decoding :
        decoding' = decoding \ {k} =>
            display' = IF CanvasPresent THEN [src |-> "enhanced", img |-> k]
                       ELSE display

C18_LastDecodeWins == [][C18_DecodeStep]_vars

\* C18 witness: two enhanced messages were decoded, both decodes are complete,
\* and the canvas shows the first message's image.
C18_Witness ==
    /\ Mounted /\ received = 2 /\ decoding = {}
    /\ lastMsg.type = "enhanced" /\ lastMsg.outcome = "decode"
    /\ display = [src |-> "enhanced", img |-> 1]

\* C19 (as stated): while a capture loop is scheduled and the camera source is
\* active, isStreaming is true.
C19_Original == (loops > 0 /\ VideoActive) => isStreaming

\* C20 (as stated): isConnected is true only if wsRef.current is the socket
\* created last and is open.
C20_Original ==
    (Mounted /\ isConnected) =>
        (wsRef = Len(sockets) /\ sockets[wsRef].readyState = "OPEN")

====
